---- MODULE Spec2Model ----
(***************************************************************************)
(* Model of main.py: the RD-03D radar web server.  Three kinds of          *)
(* cooperatively scheduled uasyncio tasks share one thread:                *)
(*   sensor_task    polls the radar driver and republishes last_targets,   *)
(*   handle_client  one task per accepted connection (read, route, write,  *)
(*                  close), which may call calibrate(),                    *)
(*   calibrate      resets the driver's target list and sleeps 0.2 s.      *)
(* An action of the model is the code that runs between two await points.  *)
(* Time is counted in ticks of 100 ms: a sleeping task holds a timer that  *)
(* Tick counts down, and it can resume only once its timer is zero.        *)
(*                                                                         *)
(* Numbers: distance is in mm, angle in hundredths of a degree, speed in   *)
(* the sensor's hundredths; a display range is in hundredths of a metre,   *)
(* a display angle in tenths of a degree, a display speed in hundredths.   *)
(***************************************************************************)
EXTENDS Integers, Sequences, FiniteSets, TLC

\* ------------------------------------------------------------------------
\* Bounds of the model
\* ------------------------------------------------------------------------
NumConns == 2

Conns == 1..NumConns

\* ------------------------------------------------------------------------
\* Program constants
\* ------------------------------------------------------------------------
\* RD03D(..., multi_mode=True): the driver reports three target slots
NumSlots == 3

\* await asyncio.sleep(0.1) in sensor_task, in ticks of 100 ms
PollTicks == 1

\* await asyncio.sleep(0.2) in calibrate, in ticks of 100 ms
SettleTicks == 2

\* await asyncio.sleep(1) in main, in ticks of 100 ms
KeepAliveTicks == 10

\* reader.read(1024)
ReadLimit == 1024

\* a published snapshot that starts with a placeholder entry
InitialTargets_Mut == <<[range |-> 0, angle |-> 0, speed |-> 0]>>

\* last_targets = []
InitialTargets == <<>>

PAT_DATA ==
    <<"G", "E", "T", " ", "/", "d", "a", "t", "a">>

PAT_CALIBRATE ==
    <<"G", "E", "T", " ", "/", "c", "a", "l", "i", "b", "r", "a", "t", "e">>

HTML == "<!DOCTYPE html>..."

\* ------------------------------------------------------------------------
\* Inputs: request buffers a client may send, readings the driver may report
\* ------------------------------------------------------------------------
REQ_DATA ==
    <<"G", "E", "T", " ", "/", "d", "a", "t", "a", " ", "H", "T", "T", "P", "/", "1", ".", "0", "\r", "\n", "\r", "\n">>

REQ_CALIBRATE ==
    <<"G", "E", "T", " ", "/", "c", "a", "l", "i", "b", "r", "a", "t", "e", " ", "H", "T", "T", "P", "/", "1", ".", "0", "\r", "\n", "\r", "\n">>

REQ_ROOT ==
    <<"G", "E", "T", " ", "/", " ", "H", "T", "T", "P", "/", "1", ".", "0", "\r", "\n", "\r", "\n">>

REQ_EMPTY == <<>>

REQ_ROOT_HDR_CAL ==
    <<"G", "E", "T", " ", "/", " ", "H", "T", "T", "P", "/", "1", ".", "0", "\r", "\n", "X", ":", " ", "G", "E", "T", " ", "/", "c", "a", "l", "i", "b", "r", "a", "t", "e", "\r", "\n", "\r", "\n">>

REQ_CAL_HDR_DATA ==
    <<"G", "E", "T", " ", "/", "c", "a", "l", "i", "b", "r", "a", "t", "e", " ", "H", "T", "T", "P", "/", "1", ".", "0", "\r", "\n", "X", ":", " ", "G", "E", "T", " ", "/", "d", "a", "t", "a", "\r", "\n", "\r", "\n">>

REQ_TRUNC ==
    <<"G", "E", "T", " ", "/", "d", "a", "t">>

\* the buffers of the one-connection specification
Requests ==
    {REQ_DATA, REQ_CALIBRATE, REQ_ROOT, REQ_EMPTY, REQ_ROOT_HDR_CAL,
     REQ_CAL_HDR_DATA, REQ_TRUNC}

\* the buffers of the specification with concurrent connections
FewRequests == {REQ_DATA, REQ_ROOT, REQ_ROOT_HDR_CAL}

\* what the driver may report in one target slot
Readings ==
    { [distance |-> 0,    angle |-> 0,     speed |-> 0],
      [distance |-> -5,   angle |-> 455,   speed |-> 10],
      [distance |-> 4000, angle |-> 1234,  speed |-> 250],
      [distance |-> 1236, angle |-> -3070, speed |-> -120] }

\* the target lists update() may leave in radar.targets
Frames == [1..NumSlots -> Readings]

\* the frames of the specification with concurrent connections
FewFrames ==
    { [i \in 1..NumSlots |-> [distance |-> 0, angle |-> 0, speed |-> 0]],
      <<[distance |-> 4000, angle |-> 1234,  speed |-> 250],
        [distance |-> 0,    angle |-> 0,     speed |-> 0],
        [distance |-> 1236, angle |-> -3070, speed |-> -120]>> }

\* ------------------------------------------------------------------------
\* Pure functions
\* ------------------------------------------------------------------------
Abs(n) == IF n < 0 THEN -n ELSE n

\* n / d cut off towards zero instead of rounded
RoundDiv_Trunc(n, d) ==
    LET q == Abs(n) \div d
    IN  IF n < 0 THEN -q ELSE q

\* round(n / d) to the nearest integer, a tie going to the even neighbour
RoundDiv(n, d) ==
    LET a == Abs(n)
        q == a \div d
        r == a % d
        m == IF 2 * r > d THEN q + 1
             ELSE IF 2 * r < d THEN q
             ELSE IF q % 2 = 0 THEN q ELSE q + 1
    IN  IF n < 0 THEN -m ELSE m

\* the dict built for one target t
DisplayTarget(t) ==
    [range |-> RoundDiv(t.distance, 10),
     angle |-> RoundDiv(t.angle, 10),
     speed |-> RoundDiv(t.speed * 100, 100)]

\* the condition of the comprehension, with >= for >
Keep_Mut(t) == t.distance >= 0

\* the condition of the comprehension, with != for >
Keep_NonZero(t) == t.distance # 0

\* the condition of the comprehension

Keep(t) == t.distance > 0

\* [ {...} for t in radar.targets if t.distance > 0 ]
RECURSIVE BuildSnapshot(_)
BuildSnapshot(ts) ==
    IF ts = <<>> THEN <<>>
    ELSE (IF Keep(Head(ts)) THEN <<DisplayTarget(Head(ts))>> ELSE <<>>)
         \o BuildSnapshot(Tail(ts))

\* pat in buf, for byte strings: some offset of buf where pat starts
RECURSIVE StartsAt(_, _, _)
StartsAt(pat, buf, i) ==
    \/ pat = <<>>
    \/ /\ i <= Len(buf)
       /\ buf[i] = Head(pat)
       /\ StartsAt(Tail(pat), buf, i + 1)

RECURSIVE BytesInFrom(_, _, _)
BytesInFrom(pat, buf, i) ==
    IF i + Len(pat) - 1 > Len(buf) THEN FALSE
    ELSE IF StartsAt(pat, buf, i) THEN TRUE
    ELSE BytesInFrom(pat, buf, i + 1)

BytesIn(pat, buf) == BytesInFrom(pat, buf, 1)

\* reader.read(1024): at most ReadLimit bytes of what the client sent
ReadBytes(sent) ==
    IF Len(sent) <= ReadLimit THEN sent ELSE SubSeq(sent, 1, ReadLimit)

\* routing on request.startswith(...) instead of ... in request
Route_Prefix(request) ==
    IF StartsAt(PAT_DATA, request, 1) THEN "json"
    ELSE IF StartsAt(PAT_CALIBRATE, request, 1) THEN "calibrate"
    ELSE "html"

\* the two tests of handle_client in the other order
Route_CalibrateFirst(request) ==
    IF BytesIn(PAT_CALIBRATE, request) THEN "calibrate"
    ELSE IF BytesIn(PAT_DATA, request) THEN "json"
    ELSE "html"

\* the if / elif / else of handle_client
Route(request) ==
    IF BytesIn(PAT_DATA, request) THEN "json"
    ELSE IF BytesIn(PAT_CALIBRATE, request) THEN "calibrate"
    ELSE "html"

NoResponse == [status |-> "", ctype |-> "", text |-> "", targets |-> <<>>]

\* f"HTTP/1.0 200 OK\r\nContent-Type: application/json\r\n\r\n{json.dumps({'targets': last_targets})}"
JsonResponse(snapshot) ==
    [status |-> "200 OK", ctype |-> "application/json", text |-> "",
     targets |-> snapshot]

\* "HTTP/1.0 200 OK\r\nContent-Type: text/plain\r\n\r\nCalibrated."
CalibratedResponse ==
    [status |-> "200 OK", ctype |-> "text/plain", text |-> "Calibrated.",
     targets |-> <<>>]

\* f"HTTP/1.0 200 OK\r\nContent-Type: text/html\r\n\r\n{HTML}"
HtmlResponse ==
    [status |-> "200 OK", ctype |-> "text/html", text |-> HTML,
     targets |-> <<>>]

\* ------------------------------------------------------------------------
\* State
\* ------------------------------------------------------------------------
VARIABLES
    targets,        \* radar.targets, the driver's target list
    last_targets,   \* the published snapshot
    sensorPc,       \* sensor_task: "sleep" (in its loop) or "dead" (raised)
    sensorTimer,    \* ticks left of sensor_task's sleep
    conn,           \* per connection: the handle_client task and its socket
    pollResult,     \* outcome of the latest radar.update(): none/new/nodata/fault
    pubFrame,       \* radar.targets as read by the latest publishing cycle
    resets,         \* number of times radar.targets was cleared
    mainTimer,      \* ticks left of the sleep of main's keep-alive loop
    lastBody,       \* <<the targets of the latest /data response>>, or <<>>
                    \* if none was built since the latest publishing cycle
    calClean        \* 0: no reset yet, or a target was tracked since the
                    \*    latest reset;
                    \* c in Conns: c's calibrate() did the latest reset, is
                    \*    settling, and no target was tracked since;
                    \* -1: that calibrate() has returned, and no target was
                    \*    tracked since its reset;
                    \* -2: as -1, and a poll cycle has published since the
                    \*    return

vars == <<targets, last_targets, sensorPc, sensorTimer, conn, pollResult,
          pubFrame, resets, mainTimer, lastBody, calClean>>

NoFrame == <<>>

NewConn ==
    [pc |-> "idle", request |-> <<>>, route |-> "none",
     response |-> NoResponse, timer |-> 0, slept |-> 0, written |-> 0,
     closed |-> 0]

\* the tasks are created; the keep-alive loop of main() is left aside
\* (InitMain and SpecMain follow it)
Init ==
    /\ targets = <<>>
    /\ last_targets = InitialTargets
    /\ sensorPc = "sleep"
    /\ sensorTimer = 0
    /\ conn = [c \in Conns |-> NewConn]
    /\ pollResult = "none"
    /\ pubFrame = NoFrame
    /\ resets = 0
    /\ mainTimer = 0
    /\ lastBody = <<>>
    /\ calClean = 0

\* the tasks are created and main() is in the first sleep of its loop
InitMain ==
    /\ targets = <<>>
    /\ last_targets = InitialTargets
    /\ sensorPc = "sleep"
    /\ sensorTimer = 0
    /\ conn = [c \in Conns |-> NewConn]
    /\ pollResult = "none"
    /\ pubFrame = NoFrame
    /\ resets = 0
    /\ mainTimer = KeepAliveTicks
    /\ lastBody = <<>>
    /\ calClean = 0

\* ------------------------------------------------------------------------
\* sensor_task
\* ------------------------------------------------------------------------
HasTarget(frame) == \E i \in 1..Len(frame) : frame[i].distance > 0

\* a poll cycle that yields while the list is half built: the published
\* list holds the entries built so far
SensorPublish_Torn(pool) ==
    /\ sensorPc = "sleep"
    /\ sensorTimer = 0
    /\ \E frame \in pool :
          /\ targets' = frame
          /\ last_targets' = BuildSnapshot(SubSeq(frame, 1, 1))
          /\ pubFrame' = frame
          /\ calClean' = IF HasTarget(frame) THEN 0
                         ELSE IF calClean = -1 THEN -2
                         ELSE calClean
    /\ pollResult' = "new"
    /\ sensorTimer' = PollTicks
    /\ lastBody' = <<>>
    /\ UNCHANGED <<sensorPc, conn, resets, mainTimer>>

\* one poll cycle in which radar.update() returns True, having put one of
\* the frames of pool in radar.targets
SensorPublish(pool) ==
    /\ sensorPc = "sleep"
    /\ sensorTimer = 0
    /\ \E frame \in pool :
          /\ targets' = frame
          /\ last_targets' = BuildSnapshot(frame)
          /\ pubFrame' = frame
          /\ calClean' = IF HasTarget(frame) THEN 0
                         ELSE IF calClean = -1 THEN -2
                         ELSE calClean
    /\ pollResult' = "new"
    /\ sensorTimer' = PollTicks
    /\ lastBody' = <<>>
    /\ UNCHANGED <<sensorPc, conn, resets, mainTimer>>

\* a poll cycle that rebuilds the snapshot whatever update() returned
SensorNoData_Republish ==
    /\ sensorPc = "sleep"
    /\ sensorTimer = 0
    /\ pollResult' = "nodata"
    /\ sensorTimer' = PollTicks
    /\ last_targets' = BuildSnapshot(targets)
    /\ UNCHANGED <<targets, sensorPc, conn, pubFrame, resets, calClean,
                   mainTimer, lastBody>>

\* a poll cycle with an else branch that empties the published list
SensorNoData_Clears ==
    /\ sensorPc = "sleep"
    /\ sensorTimer = 0
    /\ pollResult' = "nodata"
    /\ sensorTimer' = PollTicks
    /\ last_targets' = <<>>
    /\ UNCHANGED <<targets, sensorPc, conn, pubFrame, resets, calClean,
                   mainTimer, lastBody>>

\* one poll cycle in which radar.update() returns False
SensorNoData ==
    /\ sensorPc = "sleep"
    /\ sensorTimer = 0
    /\ pollResult' = "nodata"
    /\ sensorTimer' = PollTicks
    /\ UNCHANGED <<targets, last_targets, sensorPc, conn, pubFrame, resets,
                   calClean, mainTimer, lastBody>>

\* radar.update() raises: nothing in sensor_task catches it, the task ends
SensorFault ==
    /\ sensorPc = "sleep"
    /\ sensorTimer = 0
    /\ pollResult' = "fault"
    /\ sensorPc' = "dead"
    /\ UNCHANGED <<targets, last_targets, sensorTimer, conn, pubFrame, resets,
                   calClean, mainTimer, lastBody>>

\* ------------------------------------------------------------------------
\* web_server and handle_client
\* ------------------------------------------------------------------------
\* accepting with a scheduler that a calibration's sleep holds up
Accept_Blocked(c) ==
    /\ conn[c].pc = "idle"
    /\ \A d \in Conns : conn[d].pc # "settle"
    /\ conn' = [conn EXCEPT ![c].pc = "read"]
    /\ UNCHANGED <<targets, last_targets, sensorPc, sensorTimer, pollResult,
                   pubFrame, resets, calClean, mainTimer, lastBody>>

\* start_server accepts a connection and starts handle_client, which
\* suspends in reader.read
Accept(c) ==
    /\ conn[c].pc = "idle"
    /\ conn' = [conn EXCEPT ![c].pc = "read"]
    /\ UNCHANGED <<targets, last_targets, sensorPc, sensorTimer, pollResult,
                   pubFrame, resets, calClean, mainTimer, lastBody>>

\* calibrate() up to its await, called by the handler of c whose locals
\* are in routed: no reset, the settle sleep alone
CalibrateStart_NoReset(c, routed) ==
    /\ conn' = [routed EXCEPT ![c].pc = "settle",
                              ![c].timer = SettleTicks]
    /\ UNCHANGED <<targets, resets, calClean, last_targets, sensorPc,
                   sensorTimer, pollResult, pubFrame, mainTimer, lastBody>>

\* calibrate() up to its await, emptying the published list as well as
\* the driver's
CalibrateStart_ClearsSnapshot(c, routed) ==
    /\ targets' = <<>>
    /\ last_targets' = <<>>
    /\ resets' = resets + 1
    /\ calClean' = c
    /\ conn' = [routed EXCEPT ![c].pc = "settle",
                              ![c].timer = SettleTicks]
    /\ UNCHANGED <<sensorPc, sensorTimer, pollResult, pubFrame, mainTimer,
                   lastBody>>

\* calibrate() up to its await, called by the handler of c whose locals
\* are in routed: the driver reset, then the settle sleep
CalibrateStart(c, routed) ==
    /\ targets' = <<>>
    /\ resets' = resets + 1
    /\ calClean' = c
    /\ conn' = [routed EXCEPT ![c].pc = "settle",
                              ![c].timer = SettleTicks]
    /\ UNCHANGED <<last_targets, sensorPc, sensorTimer, pollResult, pubFrame,
                   mainTimer, lastBody>>

\* reader.read returns one of the buffers of pool; the request is routed
\* and handled up to the next await
ReadRequest(c, pool) ==
    /\ conn[c].pc = "read"
    /\ \E sent \in pool :
          LET request == ReadBytes(sent)
              routed  == [conn EXCEPT ![c].request = request,
                                      ![c].route = Route(request)]
          IN
          CASE Route(request) = "json" ->
                 /\ conn' = [routed EXCEPT
                        ![c].pc = "write",
                        ![c].response = JsonResponse(last_targets)]
                 /\ lastBody' = <<last_targets>>
                 /\ UNCHANGED <<targets, last_targets, sensorPc, sensorTimer,
                                pollResult, pubFrame, resets, calClean,
                                mainTimer>>
            [] Route(request) = "calibrate" ->
                 CalibrateStart(c, routed)
            [] OTHER ->
                 /\ conn' = [routed EXCEPT
                        ![c].pc = "write",
                        ![c].response = HtmlResponse]
                 /\ UNCHANGED <<targets, last_targets, sensorPc, sensorTimer,
                                pollResult, pubFrame, resets, calClean,
                                mainTimer, lastBody>>

\* reader.read raises in a handler without try / finally: the task ends
\* with the connection left open
ReadFault_Unclosed(c) ==
    /\ conn[c].pc = "read"
    /\ conn' = [conn EXCEPT ![c].pc = "done"]
    /\ UNCHANGED <<targets, last_targets, sensorPc, sensorTimer, pollResult,
                   pubFrame, resets, calClean, mainTimer, lastBody>>

\* reader.read raises and the except branch empties the published list
ReadFault_ClearsSnapshot(c) ==
    /\ conn[c].pc = "read"
    /\ conn' = [conn EXCEPT ![c].pc = "close"]
    /\ last_targets' = <<>>
    /\ UNCHANGED <<targets, sensorPc, sensorTimer, pollResult, pubFrame,
                   resets, calClean, mainTimer, lastBody>>

\* reader.read raises: except logs, finally goes to aclose
ReadFault(c) ==
    /\ conn[c].pc = "read"
    /\ conn' = [conn EXCEPT ![c].pc = "close"]
    /\ UNCHANGED <<targets, last_targets, sensorPc, sensorTimer, pollResult,
                   pubFrame, resets, calClean, mainTimer, lastBody>>

\* calibrate() returning without waiting for its sleep
CalibrateReturn_Early(c) ==
    /\ conn[c].pc = "settle"
    /\ conn' = [conn EXCEPT ![c].pc = "write",
                            ![c].response = CalibratedResponse]
    /\ calClean' = IF calClean = c THEN -1 ELSE calClean
    /\ UNCHANGED <<targets, last_targets, sensorPc, sensorTimer, pollResult,
                   pubFrame, resets, mainTimer, lastBody>>

\* calibrate() resetting the driver once more after its sleep
CalibrateReturn_Resets(c) ==
    /\ conn[c].pc = "settle"
    /\ conn[c].timer = 0
    /\ conn' = [conn EXCEPT ![c].pc = "write",
                            ![c].response = CalibratedResponse]
    /\ targets' = <<>>
    /\ resets' = resets + 1
    /\ calClean' = IF calClean = c THEN -1 ELSE calClean
    /\ UNCHANGED <<last_targets, sensorPc, sensorTimer, pollResult, pubFrame,
                   mainTimer, lastBody>>

\* the settle sleep is over: calibrate() returns, the acknowledgement is
\* built and handed to awrite
CalibrateReturn(c) ==
    /\ conn[c].pc = "settle"
    /\ conn[c].timer = 0
    /\ conn' = [conn EXCEPT ![c].pc = "write",
                            ![c].response = CalibratedResponse]
    /\ calClean' = IF calClean = c THEN -1 ELSE calClean
    /\ UNCHANGED <<targets, last_targets, sensorPc, sensorTimer, pollResult,
                   pubFrame, resets, mainTimer, lastBody>>

\* writer.awrite completes
WriteResponse(c) ==
    /\ conn[c].pc = "write"
    /\ conn' = [conn EXCEPT ![c].pc = "close",
                            ![c].written = conn[c].written + 1]
    /\ UNCHANGED <<targets, last_targets, sensorPc, sensorTimer, pollResult,
                   pubFrame, resets, calClean, mainTimer, lastBody>>

\* writer.awrite raises: except logs, finally goes to aclose
WriteFault(c) ==
    /\ conn[c].pc = "write"
    /\ conn' = [conn EXCEPT ![c].pc = "close"]
    /\ UNCHANGED <<targets, last_targets, sensorPc, sensorTimer, pollResult,
                   pubFrame, resets, calClean, mainTimer, lastBody>>

\* finally: await writer.aclose(); the task ends and its locals are gone
Close(c) ==
    /\ conn[c].pc = "close"
    /\ conn' = [conn EXCEPT ![c] = [NewConn EXCEPT
                        !.pc = "done",
                        !.written = conn[c].written,
                        !.closed = conn[c].closed + 1]]
    /\ UNCHANGED <<targets, last_targets, sensorPc, sensorTimer, pollResult,
                   pubFrame, resets, calClean, mainTimer, lastBody>>

\* ------------------------------------------------------------------------
\* main
\* ------------------------------------------------------------------------
\* while True: await asyncio.sleep(1): the sleep is over, the next begins
KeepAlive ==
    /\ mainTimer = 0
    /\ mainTimer' = KeepAliveTicks
    /\ UNCHANGED <<targets, last_targets, sensorPc, sensorTimer, conn,
                   pollResult, pubFrame, resets, calClean, lastBody>>

\* ------------------------------------------------------------------------
\* Time
\* ------------------------------------------------------------------------
Dec(n) == IF n > 0 THEN n - 1 ELSE 0

\* 100 ms pass: every running sleep has one tick less to wait
Tick ==
    /\ \/ sensorTimer > 0
       \/ mainTimer > 0
       \/ \E c \in Conns : conn[c].timer > 0
    /\ sensorTimer' = Dec(sensorTimer)
    /\ mainTimer' = Dec(mainTimer)
    /\ conn' = [c \in Conns |->
                  IF conn[c].timer > 0
                  THEN [conn[c] EXCEPT !.timer = conn[c].timer - 1,
                                       !.slept = conn[c].slept + 1]
                  ELSE conn[c]]
    /\ UNCHANGED <<targets, last_targets, sensorPc, pollResult, pubFrame,
                   resets, calClean, lastBody>>

\* ------------------------------------------------------------------------
\* Specifications
\* ------------------------------------------------------------------------
\* any number of connections at once, few frames and buffers
Next ==
    \/ SensorPublish(FewFrames)
    \/ SensorNoData
    \/ SensorFault
    \/ \E c \in Conns : Accept(c)
    \/ \E c \in Conns : ReadRequest(c, FewRequests)
    \/ \E c \in Conns : ReadFault(c)
    \/ \E c \in Conns : CalibrateReturn(c)
    \/ \E c \in Conns : WriteResponse(c)
    \/ \E c \in Conns : WriteFault(c)
    \/ \E c \in Conns : Close(c)
    \/ Tick

Spec == Init /\ [][Next]_vars

\* one connection, every frame and every buffer
NextOne ==
    \/ SensorPublish(Frames)
    \/ SensorNoData
    \/ SensorFault
    \/ Accept(1)
    \/ ReadRequest(1, Requests)
    \/ ReadFault(1)
    \/ CalibrateReturn(1)
    \/ WriteResponse(1)
    \/ WriteFault(1)
    \/ Close(1)
    \/ Tick

SpecOne == Init /\ [][NextOne]_vars

\* the connections come one after the other: the next one is accepted once
\* the handlers of the ones before have finished
AcceptNext(c) ==
    /\ \A d \in Conns : d < c => conn[d].pc = "done"
    /\ Accept(c)

\* connections one after the other, few frames, every buffer
NextSeq ==
    \/ SensorPublish(FewFrames)
    \/ SensorNoData
    \/ SensorFault
    \/ \E c \in Conns : AcceptNext(c)
    \/ \E c \in Conns : ReadRequest(c, Requests)
    \/ \E c \in Conns : ReadFault(c)
    \/ \E c \in Conns : CalibrateReturn(c)
    \/ \E c \in Conns : WriteResponse(c)
    \/ \E c \in Conns : WriteFault(c)
    \/ \E c \in Conns : Close(c)
    \/ Tick

SpecSeq == Init /\ [][NextSeq]_vars

\* one connection and the keep-alive loop of main(), few frames and buffers
NextMain ==
    \/ SensorPublish(FewFrames)
    \/ SensorNoData
    \/ SensorFault
    \/ Accept(1)
    \/ ReadRequest(1, FewRequests)
    \/ ReadFault(1)
    \/ CalibrateReturn(1)
    \/ WriteResponse(1)
    \/ WriteFault(1)
    \/ Close(1)
    \/ KeepAlive
    \/ Tick

SpecMain == InitMain /\ [][NextMain]_vars

\* the scheduler is fair: time passes, a task whose sleep is over runs, and
\* the handler of a connection whose client answers goes on; the client of
\* connection 1 may stay silent for ever, so nothing is asked of its
\* handler
Responsive == Conns \ {1}

Fairness ==
    /\ WF_vars(Tick)
    /\ WF_vars(SensorPublish(FewFrames) \/ SensorNoData)
    /\ \A d \in Responsive :
          /\ WF_vars(ReadRequest(d, FewRequests) \/ ReadFault(d))
          /\ WF_vars(CalibrateReturn(d))
          /\ WF_vars(WriteResponse(d) \/ WriteFault(d))
          /\ WF_vars(Close(d))

SpecFair == Init /\ [][Next]_vars /\ Fairness

\* ------------------------------------------------------------------------
\* Vocabulary of the properties
\* ------------------------------------------------------------------------
\* pat occurs somewhere in buf
Contains(pat, buf) ==
    \E i \in 1..(Len(buf) - Len(pat) + 1) :
        SubSeq(buf, i, i + Len(pat) - 1) = pat

\* the bytes of buf before its first CR LF, all of buf if it has none
RequestLine(buf) ==
    LET ends == {i \in 1..(Len(buf) - 1) : buf[i] = "\r" /\ buf[i + 1] = "\n"}
    IN  IF ends = {} THEN buf
        ELSE SubSeq(buf, 1, (CHOOSE i \in ends : \A j \in ends : i <= j) - 1)

\* snap is the transforms of the readings of frame with a distance above
\* zero, each once, in slot order
IsFilteredTransform(snap, frame) ==
    LET positive == {i \in 1..Len(frame) : frame[i].distance > 0}
    IN  /\ Len(snap) = Cardinality(positive)
        /\ \E f \in [1..Len(snap) -> positive] :
              /\ \A i, j \in 1..Len(snap) : i < j => f[i] < f[j]
              /\ \A i \in 1..Len(snap) : snap[i] = DisplayTarget(frame[f[i]])

\* this step is a poll cycle in which update() returned True
PublishStep ==
    /\ sensorPc = "sleep"
    /\ sensorTimer = 0
    /\ sensorTimer' = PollTicks
    /\ pollResult' = "new"

\* this step is a poll cycle in which update() returned False
NoDataStep ==
    /\ sensorPc = "sleep"
    /\ sensorTimer = 0
    /\ sensorTimer' = PollTicks
    /\ pollResult' = "nodata"

\* in this step the handler of c gets its request and routes it
Routed(c) == conn[c].pc = "read" /\ conn'[c].route # "none"

\* in this step the calibrate() called by the handler of c returns
Returned(c) == conn[c].pc = "settle" /\ conn'[c].pc # "settle"

\* the handler of c is inside the settle interval of its calibration
Settling(c) == conn[c].pc = "settle" /\ conn[c].slept < SettleTicks

\* ------------------------------------------------------------------------
\* Properties
\* ------------------------------------------------------------------------
\* C1: whenever a handler reads last_targets to build a /data response, the
\* value it reads is the initial empty list if no poll cycle has published
\* yet, and otherwise the complete filtered transform of the target list of
\* the latest publishing poll cycle, whatever the other tasks did.
C1_ReadersSeeCompleteSnapshot ==
    [][\A c \in Conns :
          (Routed(c) /\ conn'[c].route = "json") =>
             /\ conn'[c].response.targets = last_targets
             /\ IF pubFrame = NoFrame
                THEN conn'[c].response.targets = <<>>
                ELSE IsFilteredTransform(conn'[c].response.targets, pubFrame)
      ]_vars

\* a /data response holding two targets is waiting to be written while
\* another handler is in its calibration and the driver list is cleared
C1_Witness ==
    \E c, d \in Conns :
        /\ conn[c].pc = "write"
        /\ conn[c].route = "json"
        /\ Len(conn[c].response.targets) = 2
        /\ conn[d].pc = "settle"
        /\ targets = <<>>

\* C2: a poll cycle in which update() returns False leaves the published
\* snapshot as it was.
C2_NoDataKeepsSnapshot ==
    [][NoDataStep => last_targets' = last_targets]_vars

\* update() returned False after a reset emptied the driver list, and the
\* snapshot published before is still there
C2_Witness ==
    /\ pollResult = "nodata"
    /\ sensorTimer = PollTicks
    /\ targets = <<>>
    /\ resets > 0
    /\ last_targets # <<>>

\* C3: after a poll cycle in which update() returns True the published
\* snapshot is the transforms of the driver's readings with a distance above
\* zero, each once and in slot order.
C3_SnapshotIsFilteredTransform ==
    [][PublishStep => IsFilteredTransform(last_targets', targets')]_vars

\* a frame with a negative, a zero and a positive distance was published as
\* one target
C3_Witness ==
    /\ pollResult = "new"
    /\ Len(targets) = NumSlots
    /\ \E i \in 1..Len(targets) : targets[i].distance < 0
    /\ \E i \in 1..Len(targets) : targets[i].distance = 0
    /\ targets[NumSlots].distance > 0
    /\ Len(last_targets) = 1

\* C4: a /data request handled before any poll cycle has published gets the
\* JSON response with an empty targets list, and takes no error path.
C4_DataBeforePublishIsEmpty ==
    [][\A c \in Conns :
          (Routed(c) /\ pubFrame = NoFrame
                     /\ Contains(PAT_DATA, conn'[c].request)) =>
             /\ conn'[c].pc = "write"
             /\ conn'[c].response =
                  [status |-> "200 OK", ctype |-> "application/json",
                   text |-> "", targets |-> <<>>]
      ]_vars

\* a /data response was written although the poller has polled without
\* ever publishing
C4_Witness ==
    \E c \in Conns :
        /\ conn[c].pc = "close"
        /\ conn[c].route = "json"
        /\ conn[c].written = 1
        /\ pubFrame = NoFrame
        /\ pollResult = "nodata"

\* C5: the response follows the buffer read, the cases tried in this order:
\* a buffer containing "GET /data" gets the application/json document of the
\* snapshot, one containing "GET /calibrate" gets text/plain "Calibrated."
\* (once calibrate() has returned), any other buffer, the empty one
\* included, gets the text/html document; the status is always 200 OK.
C5_ResponseFollowsBuffer ==
    [][\A c \in Conns :
          LET req == conn'[c].request
              res == conn'[c].response
          IN
          /\ Routed(c) =>
               IF Contains(PAT_DATA, req)
               THEN /\ conn'[c].pc = "write"
                    /\ res = [status |-> "200 OK",
                              ctype |-> "application/json",
                              text |-> "", targets |-> last_targets]
               ELSE IF Contains(PAT_CALIBRATE, req)
               THEN /\ conn'[c].pc = "settle"
                    /\ res = NoResponse
               ELSE /\ conn'[c].pc = "write"
                    /\ res = [status |-> "200 OK", ctype |-> "text/html",
                              text |-> HTML, targets |-> <<>>]
          /\ Returned(c) =>
               /\ Contains(PAT_CALIBRATE, req)
               /\ conn'[c].pc = "write"
               /\ res = [status |-> "200 OK", ctype |-> "text/plain",
                         text |-> "Calibrated.", targets |-> <<>>]
          /\ conn'[c].pc \in {"write", "close"} /\ res # NoResponse =>
               res.status = "200 OK"
          /\ conn[c].pc \in {"write", "close"} /\ conn'[c].pc # "done" =>
               res = conn[c].response
      ]_vars

\* the empty buffer was answered with the HTML document
C5_Witness ==
    \E c \in Conns :
        /\ conn[c].pc = "close"
        /\ conn[c].written = 1
        /\ conn[c].route = "html"
        /\ conn[c].request = <<>>
        /\ conn[c].response.ctype = "text/html"

\* C6: two requests with the same request line are routed alike, whatever
\* their headers hold.
C6_RouteByRequestLine ==
    \A c, d \in Conns :
        (/\ conn[c].route # "none"
         /\ conn[d].route # "none"
         /\ RequestLine(conn[c].request) = RequestLine(conn[d].request))
        => conn[c].route = conn[d].route

\* C7: a step resets the driver exactly when it routes a request to the
\* calibration branch, once per such request, and the reset empties
\* radar.targets; so the number of resets of a run is the number of
\* requests routed to calibration.
C7_OneResetPerCalibration ==
    [][/\ resets' = resets + Cardinality({c \in Conns :
                         Routed(c) /\ conn'[c].route = "calibrate"})
       /\ resets' # resets => targets' = <<>>
       /\ \A c \in Conns :
             Routed(c) /\ conn'[c].route \in {"json", "html"} =>
                targets' = targets
      ]_vars

\* two calibration requests made two resets while a frame was in the
\* driver list between them
C7_Witness ==
    /\ resets = 2
    /\ pubFrame # NoFrame
    /\ \E c \in Conns : conn[c].pc = "close" /\ conn[c].route = "calibrate"

\* C8: the handler enters calibrate() with the driver reset done and no
\* response built, its calibrate() returns only after the whole of its own
\* settle interval has passed, and the acknowledgement is built only by
\* that return.
C8_AckAfterResetAndSettle ==
    [][\A c \in Conns :
          /\ conn[c].pc # "settle" /\ conn'[c].pc = "settle" =>
               /\ targets' = <<>>
               /\ resets' = resets + 1
               /\ conn'[c].slept = 0
               /\ conn'[c].response = NoResponse
          /\ Returned(c) =>
               /\ conn[c].slept >= SettleTicks
               /\ conn'[c].pc = "write"
          /\ (conn'[c].response.text = "Calibrated."
                /\ conn[c].response.text # "Calibrated.") => Returned(c)
          /\ conn'[c].written # conn[c].written =>
               conn[c].pc = "write" /\ conn[c].response # NoResponse
      ]_vars

\* an acknowledgement was written after a settle interval during which the
\* poller published a frame
C8_Witness ==
    \E c \in Conns :
        /\ conn[c].pc = "close"
        /\ conn[c].written = 1
        /\ conn[c].response.text = "Calibrated."
        /\ conn[c].slept = SettleTicks
        /\ targets # <<>>

\* C9: while a calibration is inside its settle interval the sensor poller
\* publishes no snapshot.
C9_NoPublishWhileSettling ==
    [][(\E c \in Conns : Settling(c)) => ~PublishStep]_vars

\* C10: once a calibrate() has returned with no target tracked since its
\* reset, the first poll cycle in which update() returns True, still with
\* no target tracked, publishes the empty snapshot.
C10_EmptyAfterCalibration ==
    [][(PublishStep /\ calClean = -1 /\ calClean' = -2) =>
          last_targets' = <<>>]_vars

\* the first publishing cycle after a calibration read a frame of three
\* slots without a target and published the empty snapshot
C10_Witness ==
    /\ calClean = -2
    /\ pollResult = "new"
    /\ Len(targets) = NumSlots
    /\ \E i \in 1..Len(targets) : targets[i].distance < 0
    /\ last_targets = <<>>
\* in this step the read or the write of the handler of c raises
FaultStep(c) ==
    /\ conn[c].pc \in {"read", "write"}
    /\ conn'[c].pc = "close"
    /\ conn'[c].written = conn[c].written

\* the handler of c has finished without having written a response
Failed(c) == conn[c].pc = "done" /\ conn[c].written = 0

C12_ClosedOnceOnEveryPath ==
    [][\A c \in Conns :
          /\ conn'[c].closed # conn[c].closed =>
               /\ conn[c].pc = "close"
               /\ conn'[c].pc = "done"
               /\ conn[c].closed = 0
               /\ conn'[c].closed = 1
          /\ conn'[c].written # conn[c].written =>
               /\ conn[c].pc = "write"
               /\ conn'[c].pc = "close"
               /\ conn[c].written = 0
               /\ conn'[c].written = 1
               /\ conn[c].closed = 0
          /\ (conn[c].pc \in {"read", "settle", "write"}
                /\ conn'[c].pc # conn[c].pc) =>
               conn'[c].pc \in {"settle", "write", "close"}
          /\ conn[c].pc = "close" =>
               /\ conn'[c].pc \in {"close", "done"}
               /\ ENABLED Close(c)
          /\ conn'[c].pc = "done" => conn'[c].closed = 1
          /\ conn[c].pc = "done" => conn'[c] = conn[c]
      ]_vars

\* one connection was closed after a fault, without a response, and
\* another after its response was written
C12_Witness ==
    \E c, d \in Conns :
        /\ Failed(c)
        /\ conn[c].closed = 1
        /\ conn[d].pc = "done"
        /\ conn[d].written = 1
        /\ conn[d].closed = 1

\* C13: a fault of the read or of the write of a connection changes
\* nothing but that handler: the published snapshot, the driver and the
\* poller are as before, the next connection can be accepted, and a
\* connection that comes after a failed one gets the response of its
\* buffer.
C13_FaultLeavesServerRunning ==
    [][\A c \in Conns :
          /\ FaultStep(c) =>
               /\ last_targets' = last_targets
               /\ targets' = targets
               /\ sensorPc' = sensorPc
               /\ sensorTimer' = sensorTimer
               /\ \A d \in Conns \ {c} : conn'[d] = conn[d]
          /\ (Failed(c) /\ c + 1 \in Conns /\ conn[c + 1].pc = "idle") =>
               ENABLED AcceptNext(c + 1)
          /\ (c - 1 \in Conns /\ Failed(c - 1) /\ Routed(c)) =>
               IF Contains(PAT_DATA, conn'[c].request)
               THEN conn'[c].response =
                       [status |-> "200 OK", ctype |-> "application/json",
                        text |-> "", targets |-> last_targets]
               ELSE IF Contains(PAT_CALIBRATE, conn'[c].request)
               THEN conn'[c].pc = "settle" /\ targets' = <<>>
               ELSE conn'[c].response =
                       [status |-> "200 OK", ctype |-> "text/html",
                        text |-> HTML, targets |-> <<>>]
      ]_vars

\* the first connection failed and was closed; the second, accepted after
\* that, was answered with two targets the poller published
C13_Witness ==
    /\ Failed(1)
    /\ conn[2].pc = "close"
    /\ conn[2].written = 1
    /\ conn[2].route = "json"
    /\ Len(conn[2].response.targets) = 2
    /\ sensorPc = "sleep"
    /\ pollResult = "new"
\* C14: if the client of connection 1 never sends its request or never
\* takes its response, so that its handler stays in its read or its write
\* for ever, then under fair scheduling the poller completes poll cycles
\* again and again and every other accepted connection is closed in the
\* end.
C14_BlockedClientBlocksOnlyItself ==
    (<>[](conn[1].pc \in {"read", "write"})) =>
        /\ []<>(sensorTimer = PollTicks)
        /\ \A d \in Responsive :
              (conn[d].pc \in {"read", "settle", "write", "close"})
                 ~> (conn[d].pc = "done")

\* C15: while a handler is in the settle sleep of its calibration, no other
\* task is held up: another connection can be accepted, read as a /data
\* request, answered and closed, a due poll cycle can run, and time passes.
C15_SettleDoesNotBlockOthers ==
    \A c \in Conns :
        conn[c].pc = "settle" =>
           /\ \A d \in Conns \ {c} :
                 /\ conn[d].pc = "idle" => ENABLED Accept(d)
                 /\ conn[d].pc = "read" => ENABLED ReadRequest(d, {REQ_DATA})
                 /\ conn[d].pc = "write" =>
                       ENABLED WriteResponse(d)
                 /\ conn[d].pc = "close" => ENABLED Close(d)
           /\ (sensorPc = "sleep" /\ sensorTimer = 0) =>
                 /\ ENABLED SensorPublish(FewFrames)
                 /\ ENABLED SensorNoData
           /\ conn[c].timer > 0 => ENABLED Tick

\* inside the settle interval of the only calibration so far, the poller
\* has published a frame and, after that, a /data request on another
\* connection was answered and its connection closed
C15_Witness ==
    \E c, d \in Conns :
        /\ Settling(c)
        /\ resets = 1
        /\ targets # <<>>
        /\ lastBody # <<>>
        /\ conn[d].pc = "done"
        /\ conn[d].written = 1
        /\ conn[d].closed = 1

\* C16: after a poll cycle in which update() raised, sensor_task is still
\* in its loop and runs its next poll cycle when due.
C16_PollerSurvivesFault ==
    pollResult = "fault" =>
        /\ sensorPc = "sleep"
        /\ sensorTimer = 0 => ENABLED SensorPublish(FewFrames)
\* the slot of frame that holds its k-th reading with a distance above zero
PositiveSlot(frame, k) ==
    CHOOSE i \in 1..Len(frame) :
        /\ frame[i].distance > 0
        /\ Cardinality({j \in 1..i : frame[j].distance > 0}) = k

\* e is the display form of reading r: the range is the distance in metres
\* to the nearest hundredth, the angle is to the nearest tenth of a degree,
\* the speed is the hundredth part of the raw speed
IsDisplayOf(e, r) ==
    /\ Abs(10 * e.range - r.distance) <= 5
    /\ Abs(10 * e.angle - r.angle) <= 5
    /\ e.speed = r.speed
    /\ (r.distance = 4000 /\ r.angle = 1234 /\ r.speed = 250) =>
          e = [range |-> 400, angle |-> 123, speed |-> 250]

\* C17: every target of the published snapshot is the display form of the
\* reading it was built from (distance 4000 mm, angle 12.34, speed 250 give
\* range 4.00, angle 12.3, speed 2.50), and a poll cycle that reads the
\* frame of the publishing cycle before it publishes the same snapshot.
C17_DisplayTransform ==
    [][/\ pubFrame' # NoFrame =>
            /\ Len(last_targets') =
                  Cardinality({i \in 1..Len(pubFrame') :
                                  pubFrame'[i].distance > 0})
            /\ \A k \in 1..Len(last_targets') :
                  IsDisplayOf(last_targets'[k],
                              pubFrame'[PositiveSlot(pubFrame', k)])
       /\ (PublishStep /\ targets' = pubFrame) =>
            last_targets' = last_targets
      ]_vars

\* the readings (4000, 12.34, 250) and (1236, -30.70, -120) were published
\* as (4.00, 12.3, 2.50) and (1.24, -30.7, -1.20)
C17_Witness ==
    /\ pollResult = "new"
    /\ \E k \in 1..Len(last_targets) :
          last_targets[k] = [range |-> 400, angle |-> 123, speed |-> 250]
    /\ \E k \in 1..Len(last_targets) :
          last_targets[k] = [range |-> 124, angle |-> -307, speed |-> -120]

\* C18: only a poll cycle in which update() returned True changes the
\* published snapshot: no step of calibrate(), of a handler, of the accept
\* loop or of the keep-alive loop does.
C18_SingleWriter ==
    [][/\ ~PublishStep => last_targets' = last_targets
       /\ \A c \in Conns :
             conn'[c].pc # conn[c].pc => last_targets' = last_targets
       /\ mainTimer' > mainTimer => last_targets' = last_targets
      ]_vars

\* a calibration has reset the driver and returned, the keep-alive loop
\* has gone round, and the snapshot published before is still there
C18_Witness ==
    /\ conn[1].response.text = "Calibrated."
    /\ conn[1].slept = SettleTicks
    /\ mainTimer = KeepAliveTicks
    /\ targets = <<>>
    /\ last_targets # <<>>

\* this step calls the driver: update(), or the reset of radar.targets
DriverOp ==
    \/ targets' # targets
    \/ resets' # resets
    \/ pollResult' # pollResult
    \/ sensorTimer = 0 /\ sensorTimer' = PollTicks

\* C19, as claimed: no step of a connection handler's task calls the
\* driver, and a step that calls it is the step of one task.
C19_NoDriverOpInHandler ==
    [][/\ \A c \in Conns :
             conn'[c].pc # conn[c].pc => ~DriverOp
       /\ DriverOp =>
             Cardinality({c \in Conns : conn'[c].pc # conn[c].pc}) <= 1
      ]_vars

\* C19, amended: a step that calls the driver is either a poll cycle of
\* sensor_task, which touches no handler, or the step in which one handler
\* routes its request to calibration and runs calibrate() up to its sleep,
\* which touches neither sensor_task nor another handler; so the reset is
\* run by the handler's own task, and never two tasks are in the driver.
C19_DriverOpsBySensorOrCallingHandler ==
    [][DriverOp =>
          \/ /\ sensorPc = "sleep"
             /\ sensorTimer = 0
             /\ conn' = conn
             /\ resets' = resets
          \/ \E c \in Conns :
                /\ Routed(c)
                /\ conn'[c].route = "calibrate"
                /\ conn'[c].pc = "settle"
                /\ \A d \in Conns \ {c} : conn'[d] = conn[d]
                /\ sensorPc' = sensorPc
                /\ sensorTimer' = sensorTimer
                /\ pollResult' = pollResult
                /\ resets' = resets + 1
                /\ targets' = <<>>
      ]_vars

\* the poller has published a frame with a target, and then a handler has
\* reset the driver and is in its settle sleep
C19_Witness ==
    \E c \in Conns :
        /\ conn[c].pc = "settle"
        /\ resets = 1
        /\ targets = <<>>
        /\ pollResult = "new"
        /\ pubFrame # NoFrame
        /\ last_targets # <<>>

\* C20: a buffer that contains both "GET /data" and "GET /calibrate" gets
\* the JSON response and resets nothing; a handler enters calibration only
\* for a buffer without "GET /data".
C20_DataBeforeCalibrate ==
    [][\A c \in Conns :
          /\ (Routed(c) /\ Contains(PAT_DATA, conn'[c].request)
                        /\ Contains(PAT_CALIBRATE, conn'[c].request)) =>
               /\ conn'[c].pc = "write"
               /\ conn'[c].response =
                     [status |-> "200 OK", ctype |-> "application/json",
                      text |-> "", targets |-> last_targets]
               /\ resets' = resets
               /\ targets' = targets
          /\ (conn[c].pc # "settle" /\ conn'[c].pc = "settle") =>
               /\ Contains(PAT_CALIBRATE, conn'[c].request)
               /\ ~Contains(PAT_DATA, conn'[c].request)
      ]_vars

\* "GET /calibrate ..." with a header holding "GET /data" was answered with
\* the JSON document, and the driver was never reset
C20_Witness ==
    \E c \in Conns :
        /\ conn[c].request = REQ_CAL_HDR_DATA
        /\ conn[c].pc = "close"
        /\ conn[c].written = 1
        /\ conn[c].response.ctype = "application/json"
        /\ resets = 0
====
